---- MODULE Spec2Model ----
(***************************************************************************)
(* functional-streams: the four stream stages of src/src/streams.ts        *)
(* (Batch, Map, Filter, Reduce) as one state machine.  A run builds one    *)
(* stage, a producer writes the items of `source` to it and ends it; the   *)
(* stage's handlers run one item at a time, as the stream runtime calls    *)
(* them.  The user callbacks are inputs, fixed when the stage is built.    *)
(***************************************************************************)
EXTENDS Naturals, Sequences, FiniteSets

\* ---------------------------------------------------------------- bounds
\* longest input of a Map, Filter or Reduce run
MaxLen == 3
\* longest input of a Batch run
MaxBatchLen == 5
\* largest batchSize a Batch stage is built with
MaxBatchSize == 3
\* error signals raised on the stage from outside (abort, upstream fault)
MaxExternalErrors == 1
\* continuations attached to a Reduce stage through then / catch
MaxContinuations == 2
\* longest input of a Reduce run whose future has callers
MaxFutureLen == 1

\* ---------------------------------------------------------------- values
Kinds == {"Batch", "Map", "Filter", "Reduce"}
Items == {"a", "b"}
Errors == {"kablam", "boom"}

\* A JavaScript value: its type tag and its payload.
Undefined == [t |-> "undefined", v |-> "undefined"]
Null == [t |-> "null", v |-> "null"]
Nullish == {Undefined, Null}
\* what a map function yields for an item (n.toString(2) in the tests)
MapResults == {[t |-> "string", v |-> "r1"], [t |-> "string", v |-> "r2"]}
\* what a filter function yields: truthy and falsy values
TestResults == {[t |-> "boolean", v |-> "true"], [t |-> "boolean", v |-> "false"],
                [t |-> "number", v |-> "0"], [t |-> "string", v |-> ""],
                Null, Undefined}
Falsy == {[t |-> "boolean", v |-> "false"], [t |-> "number", v |-> "0"],
          [t |-> "string", v |-> ""], Null, Undefined}

\* One call of a user callback: it throws v ("throw"), returns the value
\* (t, v) ("return"), or returns a promise that later fulfils with (t, v)
\* ("fulfil") or rejects with error v ("reject").
Throw(e) == [mode |-> "throw", t |-> "error", v |-> e]
Return(val) == [mode |-> "return", t |-> val.t, v |-> val.v]
Fulfil(val) == [mode |-> "fulfil", t |-> val.t, v |-> val.v]
Reject(e) == [mode |-> "reject", t |-> "error", v |-> e]
Value(o) == [t |-> o.t, v |-> o.v]
NoPromise == [mode |-> "none", t |-> "none", v |-> "none"]

Faults == {Throw(e) : e \in Errors} \cup {Reject(e) : e \in Errors}
MapOutcomes ==
    {Return(r) : r \in MapResults \cup Nullish} \cup {Fulfil(r) : r \in MapResults}
        \cup Faults
FilterOutcomes ==
    {Return(r) : r \in TestResults} \cup {Fulfil(r) : r \in TestResults} \cup Faults
\* how a reduce function behaves on an item; on "return" and "fulfil" its
\* value is ReduceValue of the accumulator and the item
ReduceBehaviours ==
    {[mode |-> "return", v |-> "value"], [mode |-> "return", v |-> "undefined"],
     [mode |-> "fulfil", v |-> "value"]}
        \cup {[mode |-> m, v |-> e] : m \in {"throw", "reject"}, e \in Errors}
\* initial accumulators (the `begin` argument)
Begins == {<< >>, <<"z">>}

\* typeof of a constructor argument that is not a function
NonCallable == {"undefined", "object", "string", "number"}

RECURSIVE SeqsUpTo(_, _)
SeqsUpTo(S, n) ==
    IF n = 0 THEN {<< >>}
    ELSE LET shorter == SeqsUpTo(S, n - 1)
         IN shorter \cup {Append(s, x) : s \in {q \in shorter : Len(q) = n - 1}, x \in S}

\* ---------------------------------------------------------------- state
VARIABLES
    kind,             \* which class the stage is an instance of
    argument,         \* the first argument its constructor is called with
    stage,            \* "none" before `new`, then "built", or "TypeError" thrown
    source,           \* the items the producer writes, in order
    fed,              \* how many of them write() has accepted
    started,          \* how many of them _transform / _write was called for
    ended,            \* end() was called: end-of-input
    writing,          \* an item is in processing: its callback is not yet called
    wstate,           \* "ok", "errored" (a write failed), "destroyed"
    awaited,          \* the promise the current item waits for, or NoPromise
    output,           \* what the stage pushed downstream, in order
    outEnded,         \* end-of-output was pushed
    finished,         \* 'finish' was emitted
    errors,           \* the errors the stage emitted as 'error', in order
    externalErrors,   \* how many of them were raised from outside
    thrown,           \* exceptions that escaped a handler to its caller
    unhandled,        \* rejections no handler was attached for
    callbacks,        \* the calls of the runtime's callback, in order: item and error
    _batchSize, _buffer,
    _mapFunction, _filterFunction, _reduceFunction,
    begin, _cumulative, _errored, _promise,
    continuations     \* handlers attached through then / catch

runtimeVars == <<fed, started, ended, writing, wstate, awaited, output, outEnded,
                 finished, errors, externalErrors, thrown, unhandled, callbacks>>
configVars == <<kind, argument, stage, source, _batchSize, _mapFunction, _filterFunction,
                _reduceFunction, begin>>
batchVars == <<_buffer>>
reduceVars == <<_cumulative, _errored, _promise, continuations>>
vars == <<runtimeVars, configVars, batchVars, reduceVars>>

\* ---------------------------------------------------------------- helpers
\* isPromise(t): typeof t.then === 'function'.  Reading .then of null or
\* undefined throws a TypeError; a promise has a then method; the plain
\* values of the model have none.
isPromise(result) ==
    IF result.mode \in {"fulfil", "reject"} THEN "true"
    ELSE IF result.t \in {"undefined", "null"} THEN "TypeError"
    ELSE "false"

\* if (testResult): JavaScript truthiness
Truthy(val) == val \notin Falsy

\* new Deferred(): a native promise with its resolve and reject functions
NewDeferred == [state |-> "pending", value |-> << >>, reason |-> "none"]
\* Deferred.resolve / reject settle the promise once; later calls do nothing
DeferredResolve(d, val) ==
    IF d.state = "pending" THEN [state |-> "fulfilled", value |-> val, reason |-> "none"]
    ELSE d
DeferredReject(d, e) ==
    IF d.state = "pending" THEN [state |-> "rejected", value |-> << >>, reason |-> e]
    ELSE d

\* A continuation attached to the promise of the Deferred: "registered"
\* while the promise is pending, "queued" as a job once the promise is
\* settled, "done" when the job has run.  calls lists what the job delivered.
\* Settling the promise queues the registered continuations.
Triggered(d) ==
    IF _promise.state = "pending" /\ d.state # "pending"
    THEN [i \in 1..Len(continuations) |->
             IF continuations[i].status = "registered"
             THEN [continuations[i] EXCEPT !.status = "queued"]
             ELSE continuations[i]]
    ELSE continuations

\* ---------------------------------------------------------------- Init
\* the constructors: BatchTransform, MapTransform, FilterTransform and
\* ReduceTransform, each with its arguments
NoFunction == [x \in Items |-> NoPromise]

Init ==
    /\ kind \in Kinds
    /\ source \in SeqsUpTo(Items, IF kind = "Batch" THEN MaxBatchLen ELSE MaxLen)
    /\ _batchSize \in (IF kind = "Batch" THEN 1..MaxBatchSize ELSE {0})
    /\ _buffer = << >>
    /\ _mapFunction \in (IF kind = "Map" THEN [Items -> MapOutcomes] ELSE {NoFunction})
    /\ _filterFunction \in
           (IF kind = "Filter" THEN [Items -> FilterOutcomes] ELSE {NoFunction})
    /\ _reduceFunction \in
           (IF kind = "Reduce" THEN [Items -> ReduceBehaviours] ELSE {NoFunction})
    /\ begin \in (IF kind = "Reduce" THEN Begins ELSE {<< >>})
    /\ _cumulative = begin
    /\ _errored = FALSE
    /\ _promise = NewDeferred
    /\ continuations = << >>
    /\ stage = "built"
    /\ argument = [typeof |-> IF kind = "Batch" THEN "number" ELSE "function",
                   f |-> CASE kind = "Map" -> _mapFunction
                           [] kind = "Filter" -> _filterFunction
                           [] kind = "Reduce" -> _reduceFunction
                           [] OTHER -> NoFunction,
                   n |-> _batchSize]
    /\ fed = 0 /\ started = 0 /\ ended = FALSE /\ writing = FALSE
    /\ wstate = "ok" /\ awaited = NoPromise
    /\ output = << >> /\ outEnded = FALSE /\ finished = FALSE
    /\ errors = << >> /\ externalErrors = 0
    /\ thrown = << >> /\ unhandled = << >> /\ callbacks = << >>

\* ---------------------------------------------------------------- runtime
\* Writable.write(chunk): the producer hands over the next item; the
\* runtime queues it until the stage is ready for it.
write ==
    /\ stage = "built"
    /\ fed < Len(source) /\ ~ended /\ wstate = "ok"
    /\ fed' = fed + 1
    /\ UNCHANGED <<started, ended, writing, wstate, awaited, output, outEnded,
                   finished, errors, externalErrors, thrown, unhandled, callbacks>>
    /\ UNCHANGED <<configVars, batchVars, reduceVars>>

\* Writable.end(): end-of-input, after the last item was written
end ==
    /\ stage = "built"
    /\ fed = Len(source) /\ ~ended /\ wstate # "destroyed"
    /\ ended' = TRUE
    /\ UNCHANGED <<fed, started, writing, wstate, awaited, output, outEnded,
                   finished, errors, externalErrors, thrown, unhandled, callbacks>>
    /\ UNCHANGED <<configVars, batchVars, reduceVars>>

\* the runtime calls _transform / _write with the next queued item when no
\* item is in processing
CanStart == stage = "built" /\ wstate = "ok" /\ ~writing /\ started < fed
data == source[started + 1]

\* the runtime ends the stage once the input has ended and every item
\* written was processed; after a failed write a runtime that does not
\* destroy the stream still does so
CanFinish ==
    stage = "built" /\ ended /\ started = fed /\ ~writing /\ ~finished /\ wstate # "destroyed"

\* Readable.push(chunk): a destroyed stream drops what is pushed
push(out, chunk) == IF wstate = "destroyed" THEN out ELSE Append(out, chunk)

\* callback() / callback(e): the handler tells the runtime that item n is
\* done with, or failed with e
callback(n, e) == callbacks' = Append(callbacks, [n |-> n, e |-> e])

\* an exception leaves the handler: the item's callback is never called, so
\* the runtime waits for it for ever; the caller of write() gets the exception
Escapes(e) ==
    /\ thrown' = Append(thrown, e)
    /\ writing' = TRUE
    /\ UNCHANGED <<awaited, output, unhandled, callbacks>>

\* ---------------------------------------------------------------- Batch
\* _transform testing the length against batchSize + 1
Batch_transform_OffByOne ==
    /\ kind = "Batch" /\ CanStart
    /\ started' = started + 1
    /\ LET pushed == Append(_buffer, data)
       IN IF Len(pushed) = _batchSize + 1
          THEN output' = push(output, pushed) /\ _buffer' = << >>
          ELSE output' = output /\ _buffer' = pushed
    /\ callback(started + 1, "none")
    /\ UNCHANGED <<fed, ended, writing, wstate, awaited, outEnded, finished, errors,
                   externalErrors, thrown, unhandled>>
    /\ UNCHANGED <<configVars, reduceVars>>

\* BatchTransform._transform
Batch_transform ==
    /\ kind = "Batch" /\ CanStart
    /\ started' = started + 1
    /\ LET pushed == Append(_buffer, data)
       IN IF Len(pushed) = _batchSize
          THEN output' = push(output, pushed) /\ _buffer' = << >>
          ELSE output' = output /\ _buffer' = pushed
    /\ callback(started + 1, "none")
    /\ UNCHANGED <<fed, ended, writing, wstate, awaited, outEnded, finished, errors,
                   externalErrors, thrown, unhandled>>
    /\ UNCHANGED <<configVars, reduceVars>>

\* _flush without its length test: the buffer is pushed even when empty
Batch_flush_PushesEmpty ==
    /\ kind = "Batch" /\ CanFinish
    /\ output' = push(output, _buffer)
    /\ finished' = TRUE /\ outEnded' = TRUE
    /\ UNCHANGED <<fed, started, ended, writing, wstate, awaited, errors,
                   externalErrors, thrown, unhandled, callbacks>>
    /\ UNCHANGED <<configVars, batchVars, reduceVars>>

\* BatchTransform._flush, then end-of-output
Batch_flush ==
    /\ kind = "Batch" /\ CanFinish
    /\ output' = (IF Len(_buffer) > 0 THEN push(output, _buffer) ELSE output)
    /\ finished' = TRUE /\ outEnded' = TRUE
    /\ UNCHANGED <<fed, started, ended, writing, wstate, awaited, errors,
                   externalErrors, thrown, unhandled, callbacks>>
    /\ UNCHANGED <<configVars, batchVars, reduceVars>>

\* ---------------------------------------------------------------- Map
\* _transform calling callback() at once for a promise, not when it fulfils
Map_transform_EarlyCallback ==
    /\ kind = "Map" /\ CanStart
    /\ started' = started + 1
    /\ LET result == _mapFunction[data]
       IN IF result.mode = "throw" THEN Escapes(result.v)
          ELSE IF isPromise(result) = "TypeError" THEN Escapes("TypeError")
          ELSE IF isPromise(result) = "true"
          THEN /\ awaited' = result /\ writing' = FALSE
               /\ callback(started + 1, "none")
               /\ UNCHANGED <<output, thrown, unhandled>>
          ELSE /\ output' = push(output, Value(result)) /\ writing' = FALSE
               /\ callback(started + 1, "none")
               /\ UNCHANGED <<awaited, thrown, unhandled>>
    /\ UNCHANGED <<fed, ended, wstate, outEnded, finished, errors, externalErrors>>
    /\ UNCHANGED <<configVars, batchVars, reduceVars>>

\* MapTransform._transform
Map_transform ==
    /\ kind = "Map" /\ CanStart
    /\ started' = started + 1
    /\ LET result == _mapFunction[data]
       IN IF result.mode = "throw" THEN Escapes(result.v)
          ELSE IF isPromise(result) = "TypeError" THEN Escapes("TypeError")
          ELSE IF isPromise(result) = "true"
          THEN /\ awaited' = result /\ writing' = TRUE
               /\ UNCHANGED <<output, thrown, unhandled, callbacks>>
          ELSE /\ output' = push(output, Value(result)) /\ writing' = FALSE
               /\ callback(started + 1, "none")
               /\ UNCHANGED <<awaited, thrown, unhandled>>
    /\ UNCHANGED <<fed, ended, wstate, outEnded, finished, errors, externalErrors>>
    /\ UNCHANGED <<configVars, batchVars, reduceVars>>

\* a rejection handler that goes on with the next item: callback()
Map_then_IgnoresRejection ==
    /\ kind = "Map" /\ awaited.mode # "none"
    /\ awaited' = NoPromise
    /\ writing' = FALSE
    /\ callback(started, "none")
    /\ IF awaited.mode = "fulfil"
       THEN output' = push(output, Value(awaited))
       ELSE UNCHANGED output
    /\ UNCHANGED <<fed, started, ended, wstate, outEnded, finished, errors,
                   externalErrors, thrown, unhandled>>
    /\ UNCHANGED <<configVars, batchVars, reduceVars>>

\* the promise of the map function settles: result.then((syncResult) => ...)
\* has a handler for fulfilment only
Map_then ==
    /\ kind = "Map" /\ awaited.mode # "none"
    /\ awaited' = NoPromise
    /\ IF awaited.mode = "fulfil"
       THEN /\ output' = push(output, Value(awaited)) /\ writing' = FALSE
            /\ callback(started, "none")
            /\ UNCHANGED unhandled
       ELSE /\ unhandled' = Append(unhandled, awaited.v)
            /\ UNCHANGED <<output, writing, callbacks>>
    /\ UNCHANGED <<fed, started, ended, wstate, outEnded, finished, errors,
                   externalErrors, thrown>>
    /\ UNCHANGED <<configVars, batchVars, reduceVars>>

\* ---------------------------------------------------------------- Filter
\* filter without its test: every item is pushed
filter_PushesAll(out, item, testResult) == push(out, item)

\* the closure `filter` of FilterTransform._transform, for the item `item`
filter(out, item, testResult) == IF Truthy(testResult) THEN push(out, item) ELSE out

\* _transform calling callback() at once for a promise, not when it fulfils
Filter_transform_EarlyCallback ==
    /\ kind = "Filter" /\ CanStart
    /\ started' = started + 1
    /\ LET result == _filterFunction[data]
       IN IF result.mode = "throw" THEN Escapes(result.v)
          ELSE IF isPromise(result) = "TypeError" THEN Escapes("TypeError")
          ELSE IF isPromise(result) = "true"
          THEN /\ awaited' = result /\ writing' = FALSE
               /\ callback(started + 1, "none")
               /\ UNCHANGED <<output, thrown, unhandled>>
          ELSE /\ output' = filter(output, data, Value(result)) /\ writing' = FALSE
               /\ callback(started + 1, "none")
               /\ UNCHANGED <<awaited, thrown, unhandled>>
    /\ UNCHANGED <<fed, ended, wstate, outEnded, finished, errors, externalErrors>>
    /\ UNCHANGED <<configVars, batchVars, reduceVars>>

\* FilterTransform._transform
Filter_transform ==
    /\ kind = "Filter" /\ CanStart
    /\ started' = started + 1
    /\ LET result == _filterFunction[data]
       IN IF result.mode = "throw" THEN Escapes(result.v)
          ELSE IF isPromise(result) = "TypeError" THEN Escapes("TypeError")
          ELSE IF isPromise(result) = "true"
          THEN /\ awaited' = result /\ writing' = TRUE
               /\ UNCHANGED <<output, thrown, unhandled, callbacks>>
          ELSE /\ output' = filter(output, data, Value(result)) /\ writing' = FALSE
               /\ callback(started + 1, "none")
               /\ UNCHANGED <<awaited, thrown, unhandled>>
    /\ UNCHANGED <<fed, ended, wstate, outEnded, finished, errors, externalErrors>>
    /\ UNCHANGED <<configVars, batchVars, reduceVars>>

\* the promise of the filter function settles: fulfilment only is handled
Filter_then ==
    /\ kind = "Filter" /\ awaited.mode # "none"
    /\ awaited' = NoPromise
    /\ IF awaited.mode = "fulfil"
       THEN /\ output' = filter(output, source[started], Value(awaited))
            /\ writing' = FALSE
            /\ callback(started, "none")
            /\ UNCHANGED unhandled
       ELSE /\ unhandled' = Append(unhandled, awaited.v)
            /\ UNCHANGED <<output, writing, callbacks>>
    /\ UNCHANGED <<fed, started, ended, wstate, outEnded, finished, errors,
                   externalErrors, thrown>>
    /\ UNCHANGED <<configVars, batchVars, reduceVars>>

\* Map and Filter define no _flush: when the input has ended the runtime
\* emits 'finish' and ends the output
Transform_final ==
    /\ kind \in {"Map", "Filter"} /\ CanFinish
    /\ finished' = TRUE /\ outEnded' = TRUE
    /\ UNCHANGED <<fed, started, ended, writing, wstate, awaited, output, errors,
                   externalErrors, thrown, unhandled, callbacks>>
    /\ UNCHANGED <<configVars, batchVars, reduceVars>>

\* ---------------------------------------------------------------- Reduce
\* the value of the reduce function where it yields one: the accumulator
\* with the item folded in (result + n.toString() in the tests)
ReduceValue(cumulative, newItem) == Append(cumulative, newItem)

\* this._reduceFunction(this._cumulative, data)
reduceFunction(cumulative, newItem) ==
    LET b == _reduceFunction[newItem]
    IN IF b.mode \in {"throw", "reject"} THEN [mode |-> b.mode, t |-> "error", v |-> b.v]
       ELSE IF b.v = "undefined" THEN Return(Undefined)
       ELSE [mode |-> b.mode, t |-> "object", v |-> ReduceValue(cumulative, newItem)]

\* no error handler: the future is left as it is
Reduce_onError_Drops(e) == UNCHANGED <<_promise, continuations>>

\* this.on('error', (e) => ...)
Reduce_onError(e) ==
    /\ _promise' = DeferredReject(_promise, e)
    /\ continuations' = Triggered(DeferredReject(_promise, e))

\* callback(e) of a write: the runtime emits 'error' with e, unless the
\* stream is destroyed already, and fails the stream: it destroys it
\* (autoDestroy) or leaves it errored
WriteFailed(e) ==
    IF wstate = "destroyed"
    THEN UNCHANGED <<errors, wstate, _promise, continuations>>
    ELSE /\ errors' = Append(errors, e)
         /\ wstate' \in {"errored", "destroyed"}
         /\ Reduce_onError(e)

\* _write calling callback() at once for a promise, not when it settles
Reduce_write_EarlyCallback ==
    /\ kind = "Reduce" /\ CanStart
    /\ started' = started + 1
    /\ LET result == reduceFunction(_cumulative, data)
       IN IF result.mode = "throw"
          THEN Escapes(result.v) /\ UNCHANGED _cumulative
          ELSE IF isPromise(result) = "TypeError"
          THEN Escapes("TypeError") /\ UNCHANGED _cumulative
          ELSE IF isPromise(result) = "true"
          THEN /\ awaited' = result /\ writing' = FALSE
               /\ callback(started + 1, "none")
               /\ UNCHANGED <<output, thrown, unhandled, _cumulative>>
          ELSE /\ _cumulative' = result.v /\ writing' = FALSE
               /\ callback(started + 1, "none")
               /\ UNCHANGED <<awaited, output, thrown, unhandled>>
    /\ UNCHANGED <<fed, ended, wstate, outEnded, finished, errors, externalErrors>>
    /\ UNCHANGED <<configVars, batchVars, _errored, _promise, continuations>>

\* ReduceTransform._write
Reduce_write ==
    /\ kind = "Reduce" /\ CanStart
    /\ started' = started + 1
    /\ LET result == reduceFunction(_cumulative, data)
       IN IF result.mode = "throw"
          THEN Escapes(result.v) /\ UNCHANGED _cumulative
          ELSE IF isPromise(result) = "TypeError"
          THEN Escapes("TypeError") /\ UNCHANGED _cumulative
          ELSE IF isPromise(result) = "true"
          THEN /\ awaited' = result /\ writing' = TRUE
               /\ UNCHANGED <<output, thrown, unhandled, callbacks, _cumulative>>
          ELSE /\ _cumulative' = result.v /\ writing' = FALSE
               /\ callback(started + 1, "none")
               /\ UNCHANGED <<awaited, output, thrown, unhandled>>
    /\ UNCHANGED <<fed, ended, wstate, outEnded, finished, errors, externalErrors>>
    /\ UNCHANGED <<configVars, batchVars, _errored, _promise, continuations>>

\* the fulfilment handler losing the result: _cumulative is not replaced
Reduce_then_KeepsOld ==
    /\ kind = "Reduce" /\ awaited.mode # "none"
    /\ awaited' = NoPromise
    /\ writing' = FALSE
    /\ IF awaited.mode = "fulfil"
       THEN /\ callback(started, "none")
            /\ UNCHANGED <<_cumulative, _errored, errors, wstate, _promise, continuations>>
       ELSE /\ _errored' = TRUE
            /\ callback(started, awaited.v)
            /\ WriteFailed(awaited.v)
            /\ UNCHANGED _cumulative
    /\ UNCHANGED <<fed, started, ended, output, outEnded, finished, externalErrors,
                   thrown, unhandled>>
    /\ UNCHANGED <<configVars, batchVars>>

\* the rejection handler swallowing the error: callback() without it
Reduce_then_SwallowsError ==
    /\ kind = "Reduce" /\ awaited.mode # "none"
    /\ awaited' = NoPromise
    /\ writing' = FALSE
    /\ IF awaited.mode = "fulfil"
       THEN /\ _cumulative' = awaited.v
            /\ UNCHANGED <<_errored, errors, wstate, _promise>>
       ELSE UNCHANGED <<_cumulative, _errored, errors, wstate, _promise>>
    /\ callback(started, "none")
    /\ UNCHANGED <<fed, started, ended, output, outEnded, finished, externalErrors,
                   thrown, unhandled>>
    /\ UNCHANGED <<configVars, batchVars, continuations>>

\* a rejection handler that folds the failed item in all the same
Reduce_then_AssignsOnReject ==
    /\ kind = "Reduce" /\ awaited.mode # "none"
    /\ awaited' = NoPromise
    /\ writing' = FALSE
    /\ IF awaited.mode = "fulfil"
       THEN /\ _cumulative' = awaited.v
            /\ callback(started, "none")
            /\ UNCHANGED <<_errored, errors, wstate, _promise, continuations>>
       ELSE /\ _errored' = TRUE
            /\ callback(started, awaited.v)
            /\ WriteFailed(awaited.v)
            /\ _cumulative' = ReduceValue(_cumulative, source[started])
    /\ UNCHANGED <<fed, started, ended, output, outEnded, finished, externalErrors,
                   thrown, unhandled>>
    /\ UNCHANGED <<configVars, batchVars>>

\* the promise of the reduce function settles: result.then((r) => ..., (e) => ...)
Reduce_then ==
    /\ kind = "Reduce" /\ awaited.mode # "none"
    /\ awaited' = NoPromise
    /\ writing' = FALSE
    /\ IF awaited.mode = "fulfil"
       THEN /\ _cumulative' = awaited.v
            /\ callback(started, "none")
            /\ UNCHANGED <<_errored, errors, wstate, _promise, continuations>>
       ELSE /\ _errored' = TRUE
            /\ callback(started, awaited.v)
            /\ WriteFailed(awaited.v)
            /\ UNCHANGED _cumulative
    /\ UNCHANGED <<fed, started, ended, output, outEnded, finished, externalErrors,
                   thrown, unhandled>>
    /\ UNCHANGED <<configVars, batchVars>>

\* the finish handler with this._promise replaced by a new, fulfilled promise
Reduce_onFinish_Replaces ==
    /\ kind = "Reduce" /\ CanFinish
    /\ finished' = TRUE
    /\ LET settled == IF ~_errored
                       THEN [state |-> "fulfilled", value |-> _cumulative, reason |-> "none"]
                       ELSE _promise
       IN _promise' = settled /\ continuations' = Triggered(settled)
    /\ UNCHANGED <<fed, started, ended, writing, wstate, awaited, output, outEnded,
                   errors, externalErrors, thrown, unhandled, callbacks>>
    /\ UNCHANGED <<configVars, batchVars, _cumulative, _errored>>

\* this.on('finish', () => ...)
Reduce_onFinish ==
    /\ kind = "Reduce" /\ CanFinish
    /\ finished' = TRUE
    /\ LET settled == IF ~_errored THEN DeferredResolve(_promise, _cumulative)
                       ELSE _promise
       IN _promise' = settled /\ continuations' = Triggered(settled)
    /\ UNCHANGED <<fed, started, ended, writing, wstate, awaited, output, outEnded,
                   errors, externalErrors, thrown, unhandled, callbacks>>
    /\ UNCHANGED <<configVars, batchVars, _cumulative, _errored>>

\* ---------------------------------------------------------------- faults from outside
ExternalFaults == {"aborted"}

\* an error signal raised on the stage from outside: emit('error', e), which
\* leaves the stream as it is, or destroy(e)
emitError(e, destroy) ==
    /\ stage = "built"
    /\ externalErrors < MaxExternalErrors /\ wstate # "destroyed"
    /\ externalErrors' = externalErrors + 1
    /\ errors' = Append(errors, e)
    /\ wstate' = (IF destroy THEN "destroyed" ELSE wstate)
    /\ IF kind = "Reduce" THEN Reduce_onError(e)
       ELSE UNCHANGED <<_promise, continuations>>
    /\ UNCHANGED <<fed, started, ended, writing, awaited, output, outEnded, finished,
                   thrown, unhandled, callbacks>>
    /\ UNCHANGED <<configVars, batchVars, _cumulative, _errored>>

\* ---------------------------------------------------------------- the future
\* this._promise.promise.then(f, e) and .catch(e): either adds a reaction to
\* the promise, registered on a pending promise and queued at once on a
\* settled one (late).  The reaction of then(f, e) calls f or e with the
\* outcome; that of catch(e) calls e on a rejection and passes a fulfilment on.
Attach ==
    /\ kind = "Reduce" /\ stage = "built" /\ Len(continuations) < MaxContinuations
    /\ continuations' = Append(continuations,
           [late |-> _promise.state # "pending", calls |-> << >>,
            status |-> IF _promise.state = "pending" THEN "registered" ELSE "queued"])
    /\ UNCHANGED <<runtimeVars, configVars, batchVars, _cumulative, _errored, _promise>>

\* ReduceTransform.then
then == Attach

\* ReduceTransform.catch
catch == Attach

\* a queued continuation runs, with the outcome of the promise
PromiseReactionJob(i) ==
    /\ i \in 1..Len(continuations) /\ continuations[i].status = "queued"
    /\ continuations' = [continuations EXCEPT ![i].status = "done",
                                              ![i].calls = Append(@, _promise)]
    /\ UNCHANGED <<runtimeVars, configVars, batchVars, _cumulative, _errored, _promise>>

\* ---------------------------------------------------------------- constructors
\* new BatchTransform(batchSize): the argument is not validated
BatchTransform_constructor ==
    /\ kind = "Batch" /\ stage = "none"
    /\ _batchSize' = argument.n
    /\ _buffer' = << >>
    /\ stage' = "built"
    /\ UNCHANGED <<runtimeVars, reduceVars>>
    /\ UNCHANGED <<kind, argument, source, _mapFunction, _filterFunction,
                   _reduceFunction, begin>>

\* new MapTransform(mapFunction)
MapTransform_constructor ==
    /\ kind = "Map" /\ stage = "none"
    /\ IF argument.typeof # "function"
       THEN stage' = "TypeError" /\ UNCHANGED _mapFunction
       ELSE stage' = "built" /\ _mapFunction' = argument.f
    /\ UNCHANGED <<runtimeVars, batchVars, reduceVars>>
    /\ UNCHANGED <<kind, argument, source, _batchSize, _filterFunction,
                   _reduceFunction, begin>>

\* the constructor without its typeof test
FilterTransform_constructor_NoCheck ==
    /\ kind = "Filter" /\ stage = "none"
    /\ stage' = "built" /\ _filterFunction' = argument.f
    /\ UNCHANGED <<runtimeVars, batchVars, reduceVars>>
    /\ UNCHANGED <<kind, argument, source, _batchSize, _mapFunction,
                   _reduceFunction, begin>>

\* new FilterTransform(filterFunction)
FilterTransform_constructor ==
    /\ kind = "Filter" /\ stage = "none"
    /\ IF argument.typeof # "function"
       THEN stage' = "TypeError" /\ UNCHANGED _filterFunction
       ELSE stage' = "built" /\ _filterFunction' = argument.f
    /\ UNCHANGED <<runtimeVars, batchVars, reduceVars>>
    /\ UNCHANGED <<kind, argument, source, _batchSize, _mapFunction,
                   _reduceFunction, begin>>

\* new ReduceTransform(reduceFunction, begin): the argument is not validated;
\* the finish and error handlers are Reduce_onFinish and Reduce_onError
ReduceTransform_constructor ==
    /\ kind = "Reduce" /\ stage = "none"
    /\ _reduceFunction' = argument.f
    /\ _cumulative' = begin
    /\ _errored' = FALSE
    /\ _promise' = NewDeferred
    /\ stage' = "built"
    /\ UNCHANGED <<runtimeVars, batchVars, continuations>>
    /\ UNCHANGED <<kind, argument, source, _batchSize, _mapFunction,
                   _filterFunction, begin>>

\* ---------------------------------------------------------------- specification
Next ==
    \/ write
    \/ end
    \/ Batch_transform
    \/ Batch_flush
    \/ Map_transform
    \/ Map_then
    \/ Filter_transform
    \/ Filter_then
    \/ Transform_final
    \/ Reduce_write
    \/ Reduce_then
    \/ Reduce_onFinish
    \/ \E e \in ExternalFaults, destroy \in BOOLEAN : emitError(e, destroy)

Spec == Init /\ [][Next]_vars

\* A Reduce stage alone.  The runtime runs what is ready: written items are
\* handed to _write, promises settle, the input ends, 'finish' is emitted.
\* Nothing obliges a fault from outside.
ReduceInit == Init /\ kind = "Reduce"

ReduceNext ==
    \/ write
    \/ end
    \/ Reduce_write
    \/ Reduce_then
    \/ Reduce_onFinish
    \/ \E e \in ExternalFaults, destroy \in BOOLEAN : emitError(e, destroy)

ReduceSpec ==
    /\ ReduceInit /\ [][ReduceNext]_vars
    /\ WF_vars(write) /\ WF_vars(end)
    /\ WF_vars(Reduce_write) /\ WF_vars(Reduce_then) /\ WF_vars(Reduce_onFinish)

\* A Reduce stage with the callers of its future, on inputs of at most
\* MaxFutureLen items.  Promise jobs that are queued do run.
FutureInit ==
    /\ Init /\ kind = "Reduce" /\ Len(source) <= MaxFutureLen /\ begin = << >>
    \* what the reduce function does on an item that is never written is immaterial
    /\ \A x \in Items :
           (\A i \in 1..Len(source) : source[i] # x) =>
               _reduceFunction[x] = [mode |-> "return", v |-> "value"]
    \* one error value is enough to tell the outcomes of the future apart
    /\ \A x \in Items :
           _reduceFunction[x].mode \in {"throw", "reject"} => _reduceFunction[x].v = "kablam"

FutureNext ==
    \/ ReduceNext
    \/ then
    \/ catch
    \/ \E i \in 1..MaxContinuations : PromiseReactionJob(i)

FutureSpec ==
    /\ FutureInit /\ [][FutureNext]_vars
    /\ \A i \in 1..MaxContinuations : WF_vars(PromiseReactionJob(i))

\* The stages from before their construction.  A Map or Filter stage is
\* built with a function or with a value of another type; Batch and Reduce,
\* which do not validate, with the arguments they are meant for.
Arguments(k) ==
    IF k = "Batch"
    THEN {[typeof |-> "number", f |-> NoFunction, n |-> b] : b \in 1..MaxBatchSize}
    ELSE {[typeof |-> "function", f |-> g, n |-> 0] :
             g \in CASE k = "Map" -> [Items -> MapOutcomes]
                     [] k = "Filter" -> [Items -> FilterOutcomes]
                     [] OTHER -> [Items -> ReduceBehaviours]}
         \cup (IF k = "Reduce" THEN {}
               ELSE {[typeof |-> t, f |-> NoFunction, n |-> 0] : t \in NonCallable})

ConstructInit ==
    /\ kind \in Kinds
    /\ argument \in Arguments(kind)
    /\ stage = "none"
    /\ source \in SeqsUpTo(Items, IF kind = "Batch" THEN MaxBatchLen ELSE MaxLen)
    /\ begin \in (IF kind = "Reduce" THEN Begins ELSE {<< >>})
    /\ _batchSize = 0 /\ _buffer = << >>
    /\ _mapFunction = NoFunction /\ _filterFunction = NoFunction
    /\ _reduceFunction = NoFunction
    /\ _cumulative = << >> /\ _errored = FALSE /\ _promise = NewDeferred
    /\ continuations = << >>
    /\ fed = 0 /\ started = 0 /\ ended = FALSE /\ writing = FALSE
    /\ wstate = "ok" /\ awaited = NoPromise
    /\ output = << >> /\ outEnded = FALSE /\ finished = FALSE
    /\ errors = << >> /\ externalErrors = 0
    /\ thrown = << >> /\ unhandled = << >> /\ callbacks = << >>

ConstructNext ==
    \/ BatchTransform_constructor
    \/ MapTransform_constructor
    \/ FilterTransform_constructor
    \/ ReduceTransform_constructor
    \/ Next

ConstructSpec == ConstructInit /\ [][ConstructNext]_vars

\* ---------------------------------------------------------------- properties
\* how many items the stage is done with: their callback was called
Completed == started - (IF writing THEN 1 ELSE 0)
Prefix(S, n) == SubSeq(S, 1, n)
\* the user callback of a Map or Filter stage
Callback(x) == IF kind = "Map" THEN _mapFunction[x] ELSE _filterFunction[x]
\* the callback yields a value for every item of the input: it never throws,
\* its promises fulfil, and what it returns directly is not null or undefined
Yields(o) ==
    /\ o.mode \in {"return", "fulfil"}
    /\ o.mode = "return" => o.t \notin {"undefined", "null"}

\* Array.prototype.map
MapOf(S) == [i \in 1..Len(S) |-> Value(_mapFunction[S[i]])]
MapNeverFails == \A i \in 1..Len(source) : Yields(_mapFunction[source[i]])

FilterOf(S) == SelectSeq(S, LAMBDA x : Truthy(Value(_filterFunction[x])))
FilterNeverFails == \A i \in 1..Len(source) : Yields(_filterFunction[source[i]])

RECURSIVE FoldLeft(_, _)
FoldLeft(z, S) == IF S = << >> THEN z ELSE FoldLeft(ReduceValue(z, Head(S)), Tail(S))
ReduceNeverFails ==
    \A i \in 1..Len(source) :
        /\ _reduceFunction[source[i]].mode \in {"return", "fulfil"}
        /\ _reduceFunction[source[i]].v = "value"

C3_WitnessEmpty ==
    /\ kind = "Reduce" /\ source = << >> /\ begin = <<"z">>
    /\ _promise.state = "fulfilled" /\ _promise.value = <<"z">>

RECURSIVE Concat(_)
Concat(groups) == IF groups = << >> THEN << >> ELSE Head(groups) \o Concat(Tail(groups))
Ceil(n, k) == (n + k - 1) \div k

\* C4: a Batch(k) stage, k positive, never emits an empty group, emits a
\* group shorter than k only as the last output of the ended stream, and
\* the groups emitted so far with the buffer are the items taken so far;
\* when it ends its output it has emitted ceil(len(S)/k) groups, the last
\* of size len(S) mod k if that is not zero, that concatenate to S.
C4_BatchGroups ==
    kind = "Batch" =>
        /\ \A i \in 1..Len(output) :
               /\ Len(output[i]) >= 1
               /\ Len(output[i]) <= _batchSize
               /\ Len(output[i]) < _batchSize => (i = Len(output) /\ outEnded)
        /\ ~outEnded => Concat(output) \o _buffer = Prefix(source, started)
        /\ outEnded =>
               /\ Len(output) = Ceil(Len(source), _batchSize)
               /\ Concat(output) = source
               /\ (Len(source) % _batchSize # 0) =>
                      Len(output[Len(output)]) = Len(source) % _batchSize

C4_Witness ==
    /\ kind = "Batch" /\ outEnded /\ _batchSize = 2
    /\ source = <<"a", "b", "b", "a", "a">>
    /\ output = << <<"a", "b">>, <<"b", "a">>, <<"a">> >>

\* an error was emitted by the stage
Emitted(e) == \E j \in 1..Len(errors) : errors[j] = e
\* the callback's call for the item in processing, or the last one processed
LastCall == Callback(source[started])
LastReduceCall == _reduceFunction[source[started]]

\* C5: in a Map or Filter stage with no fault from outside, once the promise
\* the callback returned for an item has rejected with e, the stage has
\* emitted e as its error.
C5_RejectionEmitsError ==
    (/\ kind \in {"Map", "Filter"} /\ externalErrors = 0 /\ started >= 1
     /\ LastCall.mode = "reject" /\ awaited.mode = "none")
        => Emitted(LastCall.v)

\* C6: in a Map or Filter stage with no fault from outside, once the callback
\* has thrown e on an item, the stage has emitted e as its error, and no
\* exception has left the stage.
C6_ThrowEmitsError ==
    (/\ kind \in {"Map", "Filter"} /\ externalErrors = 0 /\ started >= 1
     /\ LastCall.mode = "throw")
        => (Emitted(LastCall.v) /\ thrown = << >>)

\* C7: once the promise the reduce function returned for an item has
\* rejected with e, the error flag is set and the future is rejected, never
\* fulfilled; unless a fault from outside came first, e is the first error
\* the stage emitted and the future is rejected with e itself.
C7_ReduceRejectionRejects ==
    (/\ kind = "Reduce" /\ started >= 1
     /\ LastReduceCall.mode = "reject" /\ awaited.mode = "none")
        => /\ _errored
           /\ _promise.state = "rejected"
           /\ (errors = << >> \/ Head(errors) \notin ExternalFaults) =>
                  /\ errors # << >> /\ Head(errors) = LastReduceCall.v
                  /\ _promise.reason = LastReduceCall.v

C7_Witness ==
    /\ kind = "Reduce" /\ source = <<"a", "b">>
    /\ _reduceFunction["a"] = [mode |-> "fulfil", v |-> "value"]
    /\ _reduceFunction["b"] = [mode |-> "reject", v |-> "boom"]
    /\ started = 2 /\ awaited.mode = "none"
    /\ finished /\ errors = <<"boom">>
    /\ _promise = [state |-> "rejected", value |-> << >>, reason |-> "boom"]

\* C8: in a Reduce stage with no fault from outside, once the reduce function
\* has thrown e on an item, the error flag is set, the stage has emitted e
\* as its error and the future is rejected with e.
C8_ReduceThrowRejects ==
    (/\ kind = "Reduce" /\ externalErrors = 0 /\ started >= 1
     /\ LastReduceCall.mode = "throw")
        => /\ _errored
           /\ Emitted(LastReduceCall.v)
           /\ _promise.state = "rejected" /\ _promise.reason = LastReduceCall.v

\* the future is settled: fulfilled or rejected
Settled == _promise.state # "pending"
\* a continuation has fired once, with the outcome the future has
FiredOnce(c) == c.status = "done" /\ c.calls = <<_promise>>

C9_WitnessFinishFirst ==
    /\ kind = "Reduce" /\ finished /\ errors # << >>
    /\ _promise.state = "fulfilled"
    /\ Len(continuations) = 2
    /\ FiredOnce(continuations[1]) /\ FiredOnce(continuations[2])

\* the reduce function never returns null or undefined itself
NeverReturnsNullish ==
    \A i \in 1..Len(source) : _reduceFunction[source[i]].v # "undefined"
NeverThrows ==
    \A i \in 1..Len(source) : _reduceFunction[source[i]].mode # "throw"

\* C10: a Reduce stage whose input is written and ended, and whose reduce
\* function returns a value, throws, or returns a promise that settles, on
\* every item, has its future settled in the end.
C10_FutureEventuallySettles == NeverReturnsNullish => <>Settled

\* the same for reduce functions that never throw
C10_SettlesUnlessThrown == (NeverReturnsNullish /\ NeverThrows) => <>Settled

\* C11: the future of a Reduce stage is fulfilled only when end-of-input was
\* signalled, every item of the input was handed to the stage and the fold
\* step of each one has completed, no promise being waited for; the value it
\* is fulfilled with is the left fold of the whole input, not of a prefix.
C11_FulfilledAfterAllItems ==
    (kind = "Reduce" /\ _promise.state = "fulfilled") =>
        /\ ended /\ finished
        /\ fed = Len(source) /\ started = fed
        /\ ~writing /\ awaited.mode = "none"
        /\ Len(callbacks) = Len(source)
        /\ \A j \in 1..Len(callbacks) : callbacks[j] = [n |-> j, e |-> "none"]
        /\ _promise.value = FoldLeft(begin, source)

\* fulfilled after waiting for the promise of every item
C11_Witness ==
    /\ kind = "Reduce" /\ _promise.state = "fulfilled"
    /\ source = <<"a", "a", "b">> /\ begin = << >>
    /\ \A x \in Items : _reduceFunction[x] = [mode |-> "fulfil", v |-> "value"]
    /\ _promise.value = <<"a", "a", "b">>

\* the item the last callback() of the next state answers, and its effect:
\* the output of the item is emitted (Map, Filter; a destroyed stream drops
\* it), the item is in the buffer or in the batch emitted (Batch), the
\* accumulator is replaced by the result of the step (Reduce)
Answered == source[callbacks'[Len(callbacks')].n]
EffectDone ==
    /\ (kind = "Map" /\ wstate # "destroyed") =>
           output' = Append(output, Value(_mapFunction[Answered]))
    /\ (kind = "Filter" /\ wstate # "destroyed") =>
           output' = (IF Truthy(Value(_filterFunction[Answered]))
                      THEN Append(output, Answered) ELSE output)
    /\ kind = "Batch" =>
           Concat(output') \o _buffer' = Concat(output) \o _buffer \o <<Answered>>
    /\ kind = "Reduce" => _cumulative' = ReduceValue(_cumulative, Answered)

\* C12: a stage has at most one item in processing: the handler is called for
\* the next item, and with it the user callback, only when callback() was
\* called for every item before it and no promise is waited for; and when
\* callback() is called for an item, its output is emitted (Map, Filter,
\* Batch) or the accumulator is replaced (Reduce).
C12_OneItemAtATime ==
    /\ [](Len(callbacks) <= started /\ started - Len(callbacks) <= 1)
    /\ [](awaited.mode # "none" => (writing /\ Len(callbacks) = started - 1))
    /\ [][started' # started =>
             /\ started' = started + 1
             /\ ~writing /\ awaited.mode = "none" /\ Len(callbacks) = started]_vars
    /\ [][(callbacks' # callbacks /\ callbacks'[Len(callbacks')].e = "none") =>
             /\ callbacks' = Append(callbacks, [n |-> started', e |-> "none"])
             /\ EffectDone]_vars

\* the promise of the second item is waited for while the third is written
C12_Witness ==
    /\ kind = "Filter" /\ fed = 3 /\ started = 2
    /\ writing /\ awaited.mode = "fulfil"
    /\ callbacks = << [n |-> 1, e |-> "none"] >> /\ output = <<"a">>

\* C13: a Map or Filter constructor called with an argument that is not a
\* function throws a TypeError and leaves no stage: nothing is ever written
\* to it, emitted or signalled by it; called with a function it builds the
\* stage, whose callback is that function.
C13_ConstructorValidates ==
    (kind \in {"Map", "Filter"} /\ stage # "none") =>
        /\ stage = (IF argument.typeof = "function" THEN "built" ELSE "TypeError")
        /\ stage = "built" =>
               (IF kind = "Map" THEN _mapFunction ELSE _filterFunction) = argument.f
        /\ stage = "TypeError" =>
               /\ fed = 0 /\ started = 0 /\ ~ended /\ ~finished /\ ~outEnded
               /\ output = << >> /\ errors = << >> /\ callbacks = << >>

C13_Witness ==
    /\ kind = "Filter" /\ argument.typeof = "undefined" /\ stage = "TypeError"
    /\ source = <<"a">>

\* built with a function
C13_WitnessBuilt ==
    /\ kind = "Map" /\ argument.typeof = "function" /\ stage = "built"
    /\ outEnded /\ Len(output) = 2

\* C14: in a Batch stage built with a positive batchSize, between two calls
\* of _transform the buffer holds fewer than batchSize items, as many as the
\* items taken so far leave over modulo batchSize, and no batch emitted is
\* longer than batchSize.
C14_BufferBelowBatchSize ==
    kind = "Batch" =>
        /\ Len(_buffer) >= 0 /\ Len(_buffer) < _batchSize
        /\ Len(_buffer) = started % _batchSize
        /\ \A i \in 1..Len(output) : Len(output[i]) <= _batchSize

\* one full batch emitted, the buffer one short of the next
C14_Witness ==
    /\ kind = "Batch" /\ _batchSize = 3 /\ started = 5 /\ ~ended
    /\ Len(_buffer) = 2 /\ Len(output) = 1 /\ Len(output[1]) = 3

\* C15: whenever a Batch stage emits a batch, in _transform or in _flush, its
\* buffer is empty right after.
C15_BufferEmptyAfterEmit ==
    [][(kind = "Batch" /\ Len(output') > Len(output)) => _buffer' = << >>]_vars

\* the part of it that is about _transform: a full batch is emitted and the
\* buffer is empty right after
C15_EmptyAfterFullBatch ==
    [][(kind = "Batch" /\ Len(output') > Len(output) /\ started' # started)
          => _buffer' = << >>]_vars

\* the predicate's call for the last item taken has yielded a falsy value,
\* returned directly or through a promise that has fulfilled
LastTestFalsy ==
    /\ kind = "Filter" /\ started >= 1
    /\ LastCall.mode \in {"return", "fulfil"} /\ ~Truthy(Value(LastCall))
    /\ awaited.mode = "none"
\* the last item taken was discarded: nothing was emitted for it, nothing
\* failed, and callback() was called for it
Discarded ==
    /\ output = FilterOf(Prefix(source, started - 1))
    /\ thrown = << >> /\ unhandled = << >> /\ errors = << >>
    /\ ~writing /\ Len(callbacks) = started
    /\ callbacks[started] = [n |-> started, e |-> "none"]

\* C16: when the predicate of a Filter stage yields a falsy value for an
\* item (false, 0, "", null or undefined; directly or through a promise),
\* the stage emits nothing for the item, does not fail and calls callback().
C16_FalsyDiscards ==
    (LastTestFalsy /\ externalErrors = 0) => Discarded

\* the same for every falsy value but null and undefined returned directly
C16_FalsyDiscardsUnlessNullish ==
    (LastTestFalsy /\ externalErrors = 0 /\ isPromise(LastCall) # "TypeError")
        => Discarded

\* the user callback's call for the n-th item of the input is a fault: it
\* throws, or returns a promise that rejects
Faulted(n) ==
    /\ kind \in {"Map", "Filter", "Reduce"} /\ n \in 1..started
    /\ (IF kind = "Reduce" THEN _reduceFunction[source[n]] ELSE Callback(source[n])).mode
           \in {"throw", "reject"}

\* C17: once the user callback of a Map, Filter or Reduce stage was called
\* for an item on which it faults, it is called for no later item (the
\* faulting item is the last one a handler was called for, for ever), the
\* stage pushes no further output and the accumulator is not assigned again.
C17_NothingAfterFault ==
    /\ [](\A n \in 1..started : Faulted(n) => started = n)
    /\ [][(\E n \in 1..started : Faulted(n)) =>
             /\ started' = started
             /\ output' = output
             /\ _cumulative' = _cumulative]_vars

\* the second of three items rejects: the third, written, is never taken
C17_Witness ==
    /\ kind = "Map" /\ source = <<"a", "b", "a">>
    /\ _mapFunction["a"].mode = "fulfil" /\ _mapFunction["b"].mode = "reject"
    /\ fed = 3 /\ ended /\ started = 2 /\ awaited.mode = "none"
    /\ Len(output) = 1 /\ unhandled # << >>

\* the same in a Reduce stage, which has emitted the error
C17_WitnessReduce ==
    /\ kind = "Reduce" /\ source = <<"a", "b", "a">> /\ begin = << >>
    /\ _reduceFunction["a"].mode = "return" /\ _reduceFunction["b"].mode = "reject"
    /\ fed = 3 /\ started = 2 /\ awaited.mode = "none" /\ wstate = "errored"
    /\ _cumulative = <<"a">> /\ ended

\* each item a handler was called for is answered by one call of
\* callback, in order, once the user callback has returned or thrown and the
\* promise it returned, if any, has settled.  A handler answers in the step
\* in which the user callback returns or its promise settles, or never.
AnsweredOnce ==
    /\ Len(callbacks) <= started
    /\ \A j \in 1..Len(callbacks) : callbacks[j].n = j
    /\ (started >= 1 /\ awaited.mode = "none") => Len(callbacks) = started

\* C18: in each of the four stages, with no fault from outside, every item
\* taken is answered with exactly one callback() or callback(e), whether the
\* user callback returns, throws, or returns a promise that fulfils or
\* rejects: never twice, never left out.
C18_EveryItemAnswered == externalErrors = 0 => AnsweredOnce

\* the calls after which the code does not answer: a throw, a null or
\* undefined returned directly, and in Map and Filter a rejection
Unanswered(o) ==
    \/ o.mode = "throw"
    \/ o.mode = "return" /\ o.v \in {"undefined", "null"}
    \/ o.mode = "reject" /\ kind # "Reduce"

\* the same for the items on which the user callback does none of these
C18_AnsweredUnlessUncaught ==
    (/\ externalErrors = 0
     /\ kind # "Batch" =>
            \A n \in 1..started :
                ~Unanswered(IF kind = "Reduce" THEN _reduceFunction[source[n]]
                            ELSE Callback(source[n])))
        => AnsweredOnce

\* the future rejected with e
RejectedWith(e) == [state |-> "rejected", value |-> << >>, reason |-> e]

\* C19: when a Reduce stage emits an error e while its future is pending,
\* whether from a rejected fold step or from outside (the error flag not
\* set), the future is rejected with e in that step; a rejected future stays
\* as it is, also through a later 'finish'; so a rejected future holds the
\* first error emitted.
C19_ErrorRejectsFuture ==
    /\ [][(kind = "Reduce" /\ Len(errors') > Len(errors) /\ _promise.state = "pending")
             => _promise' = RejectedWith(errors'[Len(errors')])]_vars
    /\ [][(kind = "Reduce" /\ _promise.state = "rejected") => _promise' = _promise]_vars
    /\ []((kind = "Reduce" /\ _promise.state = "rejected")
             => (errors # << >> /\ _promise.reason = Head(errors)))

\* an error from outside, the flag not set, then 'finish'
C19_Witness ==
    /\ kind = "Reduce" /\ source = <<"a", "b">>
    /\ errors = <<"aborted">> /\ ~_errored /\ wstate = "ok"
    /\ finished /\ _cumulative = begin \o <<"a", "b">>
    /\ _promise = RejectedWith("aborted")

\* how many items were answered with callback(): folded with success
Folded == Len(SelectSeq(callbacks, LAMBDA c : c.e = "none"))

\* C20: in a Reduce stage the accumulator is assigned only in the step that
\* answers an item with success, and then it becomes the result of the
\* combining function on the accumulator and that item; so it is the left
\* fold of as many items as were folded with success, and when the
\* combining function faults on the n-th item it is, and stays, the left
\* fold of the first n-1 items (the initial value when n = 1).
C20_FailedStepKeepsAccumulator ==
    /\ [][(kind = "Reduce" /\ _cumulative' # _cumulative) =>
             /\ callbacks' = Append(callbacks, [n |-> started', e |-> "none"])
             /\ _cumulative' = ReduceValue(_cumulative, source[started'])]_vars
    /\ [][(kind = "Reduce" /\ Len(callbacks') > Len(callbacks)
              /\ callbacks'[Len(callbacks')].e = "none") => _cumulative' # _cumulative]_vars
    /\ [](kind = "Reduce" =>
             /\ _cumulative = FoldLeft(begin, Prefix(source, Folded))
             /\ \A n \in 1..started :
                    Faulted(n) => _cumulative = FoldLeft(begin, Prefix(source, n - 1)))

\* the second item's promise has rejected: the accumulator holds the first
C20_Witness ==
    /\ kind = "Reduce" /\ source = <<"a", "b">> /\ begin = <<"z">>
    /\ _reduceFunction["a"].mode = "fulfil" /\ _reduceFunction["b"].mode = "reject"
    /\ started = 2 /\ awaited.mode = "none" /\ _errored
    /\ _cumulative = <<"z", "a">>

\* the first item throws: the accumulator holds the initial value
C20_WitnessFirst ==
    /\ kind = "Reduce" /\ source = <<"b", "a">> /\ begin = <<"z">>
    /\ _reduceFunction["b"].mode = "throw"
    /\ started = 1 /\ thrown # << >> /\ _cumulative = <<"z">>

====
